---- MODULE Spec2Model ----
(***************************************************************************)
(* A model of package glob (glob.go): Compile, Match, Capture, QuoteMeta.  *)
(*                                                                         *)
(* glob.go is the facade of a pipeline                                     *)
(*   pattern --syntax.Parse--> (tree, compilerToUse)                       *)
(*           --compiler.Compile--> regex                                   *)
(*           --regexp.Compile | pcre.Compile--> engine handle              *)
(* Packages syntax and compiler belong to the repository but their code is *)
(* not part of the sources at hand; they are modelled from the written     *)
(* specification (sections 3, 4 and 6).  The two engines are modelled by   *)
(* one backtracking regular-expression interpreter over the common subset  *)
(* of syntax the generator emits.                                          *)
(*                                                                         *)
(* A string is a sequence of one-character strings.  The line feed is not  *)
(* part of any alphabet below: how "." and "$" treat it is particular to   *)
(* each engine and outside this model.                                     *)
(***************************************************************************)
EXTENDS Integers, Sequences, FiniteSets, TLC

\* ------------------------------------------------------------------ bounds

\* The callers that use one Glob at the same time.
NumCallers == 2

\* Longest text drawn exhaustively over TextAlphabet.
MaxTextLen == 3

\* Longest fixture drawn exhaustively over FixtureAlphabet.
MaxFixtureLen == 3

\* ------------------------------------------------------------- characters

Chars(str) == [i \in 1..Len(str) |-> SubSeq(str, i, i)]

\* The characters of the model in byte order (ASCII).
ByteOrder == Chars("!()*+,-./?@[\\]^abcdforxz|")

Ord(c) == CHOOSE i \in 1..Len(ByteOrder) : ByteOrder[i] = c

\* A nil pointer, and the nil error.
Nil == [nil |-> TRUE]

NoError == "nil"

\* What a look-ahead reads past the end of the input.
EndOfInput == ""

\* ------------------------------------------------- package syntax (parser)

Literal(c) == [kind |-> "Literal", char |-> c]

AnyOne == [kind |-> "AnyOne"]

AnySequence(across) == [kind |-> "AnySequence", acrossSeparators |-> across]

CharClass(ranges, negated) ==
    [kind |-> "CharClass", ranges |-> ranges, negated |-> negated]

Group(gkind, alternatives) ==
    [kind |-> "Group", gkind |-> gkind, alternatives |-> alternatives]

Sequence(children) == [kind |-> "Sequence", children |-> children]

ParseFail == [ok |-> FALSE]

\* The group kind a two-character opener "c(" selects.
GroupKindOf(c) ==
    CASE c = "@" -> "OneOf"
      [] c = "*" -> "ZeroOrMore"
      [] c = "+" -> "OneOrMore"
      [] c = "?" -> "ZeroOrOne"

\* The class member at index i: [ok, range, next].
ClassMember(p, i) ==
    IF p[i] = "\\" THEN
        IF i = Len(p) THEN ParseFail
        ELSE [ok |-> TRUE, range |-> <<p[i + 1], p[i + 1]>>, next |-> i + 2]
    ELSE IF i + 2 <= Len(p) /\ p[i + 1] = "-" /\ p[i + 2] \notin {"]", "\\"} THEN
        [ok |-> TRUE, range |-> <<p[i], p[i + 2]>>, next |-> i + 3]
    ELSE [ok |-> TRUE, range |-> <<p[i], p[i]>>, next |-> i + 1]

PrependRange(range, r) ==
    IF ~r.ok THEN ParseFail ELSE [r EXCEPT !.ranges = <<range>> \o @]

\* The members of a class body from index i up to the closing "]":
\* [ok, ranges, pos] with pos the index after "]".
RECURSIVE ParseClassBody(_, _)
ParseClassBody(p, i) ==
    IF i > Len(p) THEN ParseFail
    ELSE IF p[i] = "]" THEN [ok |-> TRUE, ranges |-> <<>>, pos |-> i + 1]
    ELSE LET m == ClassMember(p, i)
         IN  IF ~m.ok THEN ParseFail
             ELSE PrependRange(m.range, ParseClassBody(p, m.next))

\* The class node of a parsed body; an empty class is an error.
MakeClass(body, negated) ==
    IF ~body.ok \/ body.ranges = <<>> THEN ParseFail
    ELSE [ok |-> TRUE, node |-> CharClass(body.ranges, negated),
          pos |-> body.pos]

\* A class whose "[" is at index i: [ok, node, pos].
ParseClass(p, i) ==
    LET negated == i + 1 <= Len(p) /\ p[i + 1] = "!"
    IN  MakeClass(ParseClassBody(p, IF negated THEN i + 2 ELSE i + 1), negated)

\* The group opener at index i, if any: its length and the group's kind.
GroupOpener(p, i) ==
    LET next == IF i < Len(p) THEN p[i + 1] ELSE EndOfInput
    IN  IF p[i] = "(" THEN [len |-> 1, gkind |-> "OneOf"]
        ELSE IF p[i] \in {"@", "*", "+", "?"} /\ next = "("
        THEN [len |-> 2, gkind |-> GroupKindOf(p[i])]
        ELSE [len |-> 0, gkind |-> "none"]

RECURSIVE ParseSequence(_, _, _)
RECURSIVE ParseAlternatives(_, _, _)

MakeGroup(gkind, a) ==
    IF ~a.ok THEN ParseFail
    ELSE [ok |-> TRUE, node |-> Group(gkind, a.alts), pos |-> a.pos]

\* A group whose body starts at index i: [ok, node, pos].
ParseGroup(p, i, depth, gkind) ==
    MakeGroup(gkind, ParseAlternatives(p, i, depth))

\* One term at index i: [ok, node, pos].
ParseTerm(p, i, depth) ==
    LET c == p[i]
        next == IF i < Len(p) THEN p[i + 1] ELSE EndOfInput
        opener == GroupOpener(p, i)
    IN  CASE opener.len > 0 ->
               ParseGroup(p, i + opener.len, depth + 1, opener.gkind)
          [] opener.len = 0 /\ c = "\\" ->
               IF i = Len(p) THEN ParseFail
               ELSE [ok |-> TRUE, node |-> Literal(p[i + 1]), pos |-> i + 2]
          [] opener.len = 0 /\ c = "*" ->
               IF next = "*"
               THEN [ok |-> TRUE, node |-> AnySequence(TRUE), pos |-> i + 2]
               ELSE [ok |-> TRUE, node |-> AnySequence(FALSE), pos |-> i + 1]
          [] opener.len = 0 /\ c = "?" ->
               [ok |-> TRUE, node |-> AnyOne, pos |-> i + 1]
          [] c = "[" -> ParseClass(p, i)
          [] OTHER -> [ok |-> TRUE, node |-> Literal(c), pos |-> i + 1]

PrependChild(node, r) ==
    IF ~r.ok THEN ParseFail ELSE [r EXCEPT !.children = <<node>> \o @]

\* The terms after term t.
ParseRest(p, t, depth) ==
    IF ~t.ok THEN ParseFail
    ELSE PrependChild(t.node, ParseSequence(p, t.pos, depth))

\* Terms from index i up to end of input or, inside a group, up to the
\* next alternator or ")": [ok, children, pos], pos the index it stopped at.
\* A ")" outside a group and the end of input inside one are errors.
ParseSequence(p, i, depth) ==
    IF i > Len(p) THEN
        IF depth = 0 THEN [ok |-> TRUE, children |-> <<>>, pos |-> i]
        ELSE ParseFail
    ELSE IF p[i] = ")" THEN
        IF depth > 0 THEN [ok |-> TRUE, children |-> <<>>, pos |-> i]
        ELSE ParseFail
    ELSE IF p[i] \in {"|", ","} /\ depth > 0 THEN
        [ok |-> TRUE, children |-> <<>>, pos |-> i]
    ELSE ParseRest(p, ParseTerm(p, i, depth), depth)

PrependAlternative(alt, r) ==
    IF ~r.ok THEN ParseFail ELSE [r EXCEPT !.alts = <<alt>> \o @]

\* The alternatives after alternative s, which stopped at ")" or at an
\* alternator.
AfterAlternative(p, s, depth) ==
    IF ~s.ok THEN ParseFail
    ELSE IF p[s.pos] = ")" THEN
        [ok |-> TRUE, alts |-> <<Sequence(s.children)>>, pos |-> s.pos + 1]
    ELSE PrependAlternative(Sequence(s.children),
                            ParseAlternatives(p, s.pos + 1, depth))

\* The alternatives of a group whose body starts at index i, up to the
\* matching ")": [ok, alts, pos].
ParseAlternatives(p, i, depth) ==
    AfterAlternative(p, ParseSequence(p, i, depth), depth)

\* Feature analyzer: a Group node anywhere in the tree.
RECURSIVE HasGroup(_)
HasGroup(node) ==
    CASE node.kind = "Group" -> TRUE
      [] node.kind = "Sequence" ->
           \E k \in 1..Len(node.children) : HasGroup(node.children[k])
      [] OTHER -> FALSE

\* Feature analyzer: the engine a tree needs.
Analyze(tree) == IF HasGroup(tree) THEN "PCRE" ELSE "Regexp"

ParseResult(s) ==
    IF ~s.ok THEN [tree |-> Nil, compilerToUse |-> "none", err |-> "syntax"]
    ELSE [tree |-> Sequence(s.children),
          compilerToUse |-> Analyze(Sequence(s.children)),
          err |-> NoError]

\* syntax.Parse: (tree, compilerToUse, err).
Parse(p) == ParseResult(ParseSequence(p, 1, 0))

\* ------------------------------------------ package compiler (generator)

\* The characters the target dialect reads as operators outside a class.
RegexMeta == {"\\", ".", "+", "*", "?", "(", ")", "|", "[", "]", "{", "}", "^", "$"}

\* The characters the target dialect reads as operators inside a class.
ClassMeta == {"\\", "]", "[", "^", "-"}

QuoteRegex(c) == IF c \in RegexMeta THEN <<"\\", c>> ELSE <<c>>

QuoteClass(c) == IF c \in ClassMeta THEN <<"\\", c>> ELSE <<c>>

RECURSIVE QuoteClassAll(_)
QuoteClassAll(cs) ==
    IF cs = <<>> THEN <<>> ELSE QuoteClass(Head(cs)) \o QuoteClassAll(Tail(cs))

\* One character that is no separator.
NonSeparator(separators) ==
    IF separators = <<>> THEN <<".">>
    ELSE <<"[", "^">> \o QuoteClassAll(separators) \o <<"]">>

RECURSIVE GenRanges(_)
GenRanges(ranges) ==
    IF ranges = <<>> THEN <<>>
    ELSE LET lo == Head(ranges)[1]
             hi == Head(ranges)[2]
         IN  (IF lo = hi THEN QuoteClass(lo)
              ELSE QuoteClass(lo) \o <<"-">> \o QuoteClass(hi))
             \o GenRanges(Tail(ranges))

Quantifier(gkind) ==
    CASE gkind = "OneOf" -> <<>>
      [] gkind = "ZeroOrOne" -> <<"?">>
      [] gkind = "ZeroOrMore" -> <<"*">>
      [] gkind = "OneOrMore" -> <<"+">>

RECURSIVE GenNode(_, _)
RECURSIVE GenChildren(_, _)
RECURSIVE GenAlternatives(_, _)

GenChildren(children, separators) ==
    IF children = <<>> THEN <<>>
    ELSE GenNode(Head(children), separators)
         \o GenChildren(Tail(children), separators)

GenAlternatives(alts, separators) ==
    IF Len(alts) = 1 THEN GenNode(alts[1], separators)
    ELSE GenNode(Head(alts), separators) \o <<"|">>
         \o GenAlternatives(Tail(alts), separators)

GenNode(node, separators) ==
    CASE node.kind = "Literal" -> QuoteRegex(node.char)
      [] node.kind = "AnyOne" -> NonSeparator(separators)
      [] node.kind = "AnySequence" ->
           IF node.acrossSeparators THEN <<".", "*">>
           ELSE NonSeparator(separators) \o <<"*">>
      [] node.kind = "CharClass" ->
           <<"[">> \o (IF node.negated THEN <<"^">> ELSE <<>>)
           \o GenRanges(node.ranges) \o <<"]">>
      [] node.kind = "Group" ->
           <<"(">> \o GenAlternatives(node.alternatives, separators)
           \o <<")">> \o Quantifier(node.gkind)
      [] node.kind = "Sequence" -> GenChildren(node.children, separators)

\* compiler.Compile: (regex, err).  The program matches whole inputs only.
CompilerCompile(tree, separators) ==
    IF tree.kind # "Sequence" THEN [regex |-> <<>>, err |-> "codegen"]
    ELSE [regex |-> <<"^">> \o GenNode(tree, separators) \o <<"$">>,
          err |-> NoError]

\* --------------------------------------- the engines: compiling a program

ReFail == [ok |-> FALSE]

\* The class member at index i: [ok, lo, hi, next].
ReClassMember(re, i) ==
    LET esc == re[i] = "\\"
        lo == IF esc /\ i < Len(re) THEN re[i + 1] ELSE re[i]
        j == IF esc THEN i + 2 ELSE i + 1
        ranged == j + 1 <= Len(re) /\ re[j] = "-" /\ re[j + 1] # "]"
        hesc == ranged /\ re[j + 1] = "\\"
        hi == IF ~ranged THEN lo
              ELSE IF hesc /\ j + 2 <= Len(re) THEN re[j + 2]
              ELSE re[j + 1]
        next == IF ~ranged THEN j ELSE IF hesc THEN j + 3 ELSE j + 2
    IN  IF (esc /\ i = Len(re)) \/ (hesc /\ j + 2 > Len(re)) THEN ReFail
        ELSE IF Ord(lo) > Ord(hi) THEN ReFail
        ELSE [ok |-> TRUE, lo |-> lo, hi |-> hi, next |-> next]

RePrependRange(range, r) ==
    IF ~r.ok THEN ReFail ELSE [r EXCEPT !.ranges = <<range>> \o @]

\* The members of a class from index i up to "]": [ok, ranges, pos].
\* A range whose ends are out of order is an error.
RECURSIVE ReClassBody(_, _)
ReClassBody(re, i) ==
    IF i > Len(re) THEN ReFail
    ELSE IF re[i] = "]" THEN [ok |-> TRUE, ranges |-> <<>>, pos |-> i + 1]
    ELSE LET m == ReClassMember(re, i)
         IN  IF ~m.ok THEN ReFail
             ELSE RePrependRange(<<m.lo, m.hi>>, ReClassBody(re, m.next))

ReMakeClass(b, neg, n) ==
    IF ~b.ok \/ b.ranges = <<>> THEN ReFail
    ELSE [ok |-> TRUE,
          node |-> [k |-> "set", neg |-> neg, ranges |-> b.ranges],
          pos |-> b.pos, n |-> n]

ReClass(re, i, n) ==
    LET neg == i < Len(re) /\ re[i + 1] = "^"
    IN  ReMakeClass(ReClassBody(re, IF neg THEN i + 2 ELSE i + 1), neg, n)

RECURSIVE ReAlternation(_, _, _)
RECURSIVE ReConcat(_, _, _)

\* The group number idx around the alternation a, which must stop at ")".
ReMakeGroup(re, a, idx) ==
    IF ~a.ok \/ a.pos > Len(re) THEN ReFail
    ELSE [ok |-> TRUE,
          node |-> [k |-> "grp", idx |-> idx, alts |-> a.alts],
          pos |-> a.pos + 1, n |-> a.n]

\* One atom at index i, n capture groups opened so far: [ok, node, pos, n].
ReAtom(re, i, n) ==
    LET c == re[i]
    IN  CASE c = "(" -> ReMakeGroup(re, ReAlternation(re, i + 1, n + 1), n + 1)
          [] c = "[" -> ReClass(re, i, n)
          [] c = "\\" ->
               IF i = Len(re) THEN ReFail
               ELSE [ok |-> TRUE, node |-> [k |-> "chr", c |-> re[i + 1]],
                     pos |-> i + 2, n |-> n]
          [] c \in {"*", "+", "?"} -> ReFail
          [] c = "." -> [ok |-> TRUE, node |-> [k |-> "any"], pos |-> i + 1, n |-> n]
          [] c = "^" -> [ok |-> TRUE, node |-> [k |-> "bol"], pos |-> i + 1, n |-> n]
          [] c = "$" -> [ok |-> TRUE, node |-> [k |-> "eol"], pos |-> i + 1, n |-> n]
          [] OTHER -> [ok |-> TRUE, node |-> [k |-> "chr", c |-> c],
                       pos |-> i + 1, n |-> n]

\* Atom a with its quantifier, if one follows.
ReQuantify(re, a) ==
    IF ~a.ok THEN ReFail
    ELSE IF a.pos <= Len(re) /\ re[a.pos] \in {"*", "+", "?"} THEN
        [a EXCEPT !.node = [k |-> "rep",
                            min |-> IF re[a.pos] = "+" THEN 1 ELSE 0,
                            many |-> re[a.pos] # "?",
                            sub |-> a.node],
                  !.pos = a.pos + 1]
    ELSE a

RePrependNode(node, r) ==
    IF ~r.ok THEN ReFail ELSE [r EXCEPT !.nodes = <<node>> \o @]

ReAfterAtom(re, a) ==
    IF ~a.ok THEN ReFail ELSE RePrependNode(a.node, ReConcat(re, a.pos, a.n))

\* Atoms up to "|", ")" or end of input: [ok, nodes, pos, n].
ReConcat(re, i, n) ==
    IF i > Len(re) \/ re[i] \in {"|", ")"} THEN
        [ok |-> TRUE, nodes |-> <<>>, pos |-> i, n |-> n]
    ELSE ReAfterAtom(re, ReQuantify(re, ReAtom(re, i, n)))

RePrependBranch(nodes, r) ==
    IF ~r.ok THEN ReFail ELSE [r EXCEPT !.alts = <<nodes>> \o @]

ReAfterBranch(re, c) ==
    IF ~c.ok THEN ReFail
    ELSE IF c.pos <= Len(re) /\ re[c.pos] = "|" THEN
        RePrependBranch(c.nodes, ReAlternation(re, c.pos + 1, c.n))
    ELSE [ok |-> TRUE, alts |-> <<c.nodes>>, pos |-> c.pos, n |-> c.n]

\* Branches separated by "|": [ok, alts, pos, n].
ReAlternation(re, i, n) == ReAfterBranch(re, ReConcat(re, i, n))

\* The program of a parsed pattern string; a ")" left over is an error.
MakeProgram(re, a) ==
    IF ~a.ok \/ a.pos <= Len(re) THEN [prog |-> Nil, err |-> "engine"]
    ELSE [prog |-> [alts |-> a.alts, groups |-> a.n], err |-> NoError]

\* What both engines do with a pattern string: a program, or an error.
EngineCompile(re) == MakeProgram(re, ReAlternation(re, 1, 0))

\* ----------------------------------------- the engines: running a program

\* Whether character c lies in one of the ranges.
InRanges(c, ranges) ==
    \E k \in 1..Len(ranges) :
        Ord(ranges[k][1]) <= Ord(c) /\ Ord(c) <= Ord(ranges[k][2])

\* A run is [pos, caps]: pos characters of the subject consumed, caps the
\* span <<start, end>> of every group that took part, <<>> for the others.
\* Every operator below yields the runs of a backtracking search in the
\* order the search tries them.

RECURSIVE RunNode(_, _, _, _)
RECURSIVE RunNodes(_, _, _, _, _)
RECURSIVE RunAlts(_, _, _, _, _)
RECURSIVE RunRest(_, _, _, _, _)
RECURSIVE RunMore(_, _, _, _, _)

\* The runs of nodes[k..] from each of runs[j..], in order.
RunRest(nodes, k, s, runs, j) ==
    IF j > Len(runs) THEN <<>>
    ELSE RunNodes(nodes, k, s, runs[j].pos, runs[j].caps)
         \o RunRest(nodes, k, s, runs, j + 1)

RunNodes(nodes, k, s, i, caps) ==
    IF k > Len(nodes) THEN <<[pos |-> i, caps |-> caps]>>
    ELSE RunRest(nodes, k + 1, s, RunNode(nodes[k], s, i, caps), 1)

RunAlts(alts, a, s, i, caps) ==
    IF a > Len(alts) THEN <<>>
    ELSE RunNodes(alts[a], 1, s, i, caps) \o RunAlts(alts, a + 1, s, i, caps)

\* runs with group idx recorded as the span from i to each run's end.
RunGroup(runs, idx, i) ==
    [j \in 1..Len(runs) |->
        [runs[j] EXCEPT !.caps = [@ EXCEPT ![idx] = <<i, runs[j].pos>>]]]

\* Greedy repetition, first being the runs of one iteration from i: as
\* many iterations as possible first, none last.
RunStar(sub, s, i, caps, first) ==
    RunMore(sub, s, i, first, 1) \o <<[pos |-> i, caps |-> caps]>>

\* After one iteration from position i gave runs[j..]: iterate again from
\* each run that consumed something, stop at one that consumed nothing.
RunMore(sub, s, i, runs, j) ==
    IF j > Len(runs) THEN <<>>
    ELSE (IF runs[j].pos > i
          THEN RunStar(sub, s, runs[j].pos, runs[j].caps,
                       RunNode(sub, s, runs[j].pos, runs[j].caps))
          ELSE <<runs[j]>>)
         \o RunMore(sub, s, i, runs, j + 1)

\* A quantified node, first being the runs of one iteration from i.
RunRepeat(node, s, i, caps, first) ==
    IF node.many /\ node.min = 0 THEN RunStar(node.sub, s, i, caps, first)
    ELSE IF node.many THEN RunMore(node.sub, s, i, first, 1)
    ELSE first \o <<[pos |-> i, caps |-> caps]>>

RunNode(node, s, i, caps) ==
    LET one == <<[pos |-> i + 1, caps |-> caps]>>
        here == <<[pos |-> i, caps |-> caps]>>
    IN  CASE node.k = "chr" ->
               IF i < Len(s) /\ s[i + 1] = node.c THEN one ELSE <<>>
          [] node.k = "any" -> IF i < Len(s) THEN one ELSE <<>>
          [] node.k = "set" ->
               IF i < Len(s) /\ (InRanges(s[i + 1], node.ranges) # node.neg)
               THEN one ELSE <<>>
          [] node.k = "bol" -> IF i = 0 THEN here ELSE <<>>
          [] node.k = "eol" -> IF i = Len(s) THEN here ELSE <<>>
          [] node.k = "grp" ->
               RunGroup(RunAlts(node.alts, 1, s, i, caps), node.idx, i)
          [] node.k = "rep" ->
               RunRepeat(node, s, i, caps, RunNode(node.sub, s, i, caps))

\* The match that runs from position start make, if any; caps[0] is the
\* span of the whole match.
FirstRun(runs, start) ==
    IF runs = <<>> THEN [found |-> FALSE]
    ELSE [found |-> TRUE,
          caps |-> [runs[1].caps EXCEPT ![0] = <<start, runs[1].pos>>]]

\* The first match of prog in s, searching from every start position.
RECURSIVE ExecFrom(_, _, _)
ExecFrom(prog, s, start) ==
    LET m == FirstRun(RunAlts(prog.alts, 1, s, start,
                              [g \in 0..prog.groups |-> <<>>]), start)
    IN  IF m.found \/ start >= Len(s) THEN m
        ELSE ExecFrom(prog, s, start + 1)

Exec(prog, s) == ExecFrom(prog, s, 0)

\* The text of group g of match m: empty when the group took no part.
GroupText(m, s, g) ==
    IF m.caps[g] = <<>> THEN <<>>
    ELSE SubSeq(s, m.caps[g][1] + 1, m.caps[g][2])

\* The data of match m of a program with so many groups: text[k] is the
\* text of group k - 1.
MatchData(m, s, groups) ==
    [matches |-> m.found, groups |-> groups,
     text |-> IF m.found THEN [k \in 1..groups + 1 |-> GroupText(m, s, k - 1)]
              ELSE <<>>]

\* Match data of one call: what pcre's MatcherString and regexp's
\* FindStringSubmatch leave behind for the reads that follow.
NewMatcher(prog, s) == MatchData(Exec(prog, s), s, prog.groups)

\* ------------------------------------------------------------- package glob

\* How a call ends: it returns a value, or it panics.
Returned(v) == [panic |-> FALSE, value |-> v]

Panicked == [panic |-> TRUE]

\* BindEngine returning the Glob it had begun together with the error.
BindEngineKeepsGlob(compilerToUse, e) ==
    CASE compilerToUse = "Regexp" ->
           IF e.err # NoError THEN [glob |-> [r |-> Nil, p |-> Nil], err |-> e.err]
           ELSE [glob |-> [r |-> e.prog, p |-> Nil], err |-> NoError]
      [] compilerToUse = "PCRE" ->
           IF e.err # NoError THEN [glob |-> [r |-> Nil, p |-> Nil], err |-> e.err]
           ELSE [glob |-> [r |-> Nil, p |-> e.prog], err |-> NoError]
      [] OTHER -> [glob |-> Nil, err |-> "Unrecognized compiler"]

\* BindEngine with the two cases of the switch exchanged.
BindEngineSwapped(compilerToUse, e) ==
    CASE compilerToUse = "PCRE" ->
           IF e.err # NoError THEN [glob |-> Nil, err |-> e.err]
           ELSE [glob |-> [r |-> e.prog, p |-> Nil], err |-> NoError]
      [] compilerToUse = "Regexp" ->
           IF e.err # NoError THEN [glob |-> Nil, err |-> e.err]
           ELSE [glob |-> [r |-> Nil, p |-> e.prog], err |-> NoError]
      [] OTHER -> [glob |-> Nil, err |-> "Unrecognized compiler"]

\* The switch of Compile on the engine's answer e: the Glob, or the error.
BindEngine(compilerToUse, e) ==
    CASE compilerToUse = "Regexp" ->
           IF e.err # NoError THEN [glob |-> Nil, err |-> e.err]
           ELSE [glob |-> [r |-> e.prog, p |-> Nil], err |-> NoError]
      [] compilerToUse = "PCRE" ->
           IF e.err # NoError THEN [glob |-> Nil, err |-> e.err]
           ELSE [glob |-> [r |-> Nil, p |-> e.prog], err |-> NoError]
      [] OTHER -> [glob |-> Nil, err |-> "Unrecognized compiler"]

\* m.GroupString(i): group i of the last match; there are groups 0..num.
GroupString(m, i) ==
    IF i > m.groups THEN Panicked
    ELSE IF ~m.matches THEN Returned(<<>>)
    ELSE Returned(m.text[i + 1])

\* The loop of Capture running one index too far: i <= num + 1.
LastGroupPastEnd(num) == num + 1

\* The loop of Capture stopping one index early: i < num.
LastGroupShort(num) == num - 1

\* The last index the loop of Capture reads: for i := 0; i <= num; i++.
LastGroup(num) == num

\* groups = append(groups, g), unless a step has panicked.
AppendGroup(g, rest) ==
    IF g.panic \/ rest.panic THEN Panicked
    ELSE Returned(<<g.value>> \o rest.value)

\* The loop of Capture from index i on: the strings appended.
RECURSIVE CaptureLoop(_, _, _)
CaptureLoop(m, i, last) ==
    IF i > last THEN Returned(<<>>)
    ELSE AppendGroup(GroupString(m, i), CaptureLoop(m, i + 1, last))

\* Capture on the PCRE matcher m.
CaptureGroups(m) ==
    IF m.matches THEN CaptureLoop(m, 0, LastGroup(m.groups))
    ELSE Returned(<<>>)

\* Match answering on PCRE whether group 0 of the match is non-empty.
GlobMatchGroupZero(g, fixture) ==
    IF g.r = Nil /\ g.p = Nil THEN Panicked
    ELSE IF g.r # Nil THEN Returned(NewMatcher(g.r, fixture).matches)
    ELSE Returned(NewMatcher(g.p, fixture).matches
                  /\ NewMatcher(g.p, fixture).text[1] # <<>>)

\* Match answering on regexp whether FindString found a non-empty string.
GlobMatchFindString(g, fixture) ==
    IF g.r = Nil /\ g.p = Nil THEN Panicked
    ELSE IF g.r # Nil
    THEN Returned(NewMatcher(g.r, fixture).matches
                  /\ NewMatcher(g.r, fixture).text[1] # <<>>)
    ELSE Returned(NewMatcher(g.p, fixture).matches)

\* g.Match(fixture).
GlobMatch(g, fixture) ==
    IF g.r = Nil /\ g.p = Nil THEN Panicked
    ELSE Returned(NewMatcher(IF g.r # Nil THEN g.r ELSE g.p, fixture).matches)

\* g.Capture(fixture).
GlobCapture(g, fixture) ==
    IF g.r = Nil /\ g.p = Nil THEN Panicked
    ELSE IF g.r # Nil THEN Returned(NewMatcher(g.r, fixture).text)
    ELSE CaptureGroups(NewMatcher(g.p, fixture))

\* syntax.Special: the bytes the glob grammar does not read as themselves.
Special(c) == c \in {"*", "?", "\\", "[", "(", ")", "@", "+"}

\* The zero byte a fresh buffer holds.
NUL == "NUL"

\* A buffer of len(s) bytes.
BufferSizeShort(s) == Len(s)

\* b := make([]byte, 2*len(s)).
BufferSize(s) == 2 * Len(s)

\* ------------------------------------------------------------------ inputs

StringsUpTo(alphabet, n) == UNION {[1..k -> alphabet] : k \in 0..n}

TextAlphabet == {"a", "/", "*", "?", "\\", "(", ")", "["}

ExampleTexts ==
    { Chars("@(foo|bar)baz"), Chars("@(foo|bar)"), Chars("*(ab)"),
      Chars("+(ab)"), Chars("?(ab)"), Chars("[a-c]"), Chars("[!a-c]"),
      Chars("[]"), Chars("@(foo"), Chars("foo\\"), Chars("*(foo*)"),
      Chars("[c-a]"), Chars("*(a|?(b,c))x"), Chars("(a)/+(b|(c))"),
      Chars("a.b"), Chars("[a-]|,"), Chars("a/**"), Chars("?(*)a") }

Texts == StringsUpTo(TextAlphabet, MaxTextLen) \cup ExampleTexts

SeparatorChoices == {<<>>, <<"/">>}

FixtureAlphabet == {"a", "/"}

ExampleFixtures ==
    { Chars("foo"), Chars("bar"), Chars("baz"), Chars("foobaz"),
      Chars("ab"), Chars("abab"), Chars("b"), Chars("d"), Chars("axb"),
      Chars("a/bc") }

\* The inputs tried on a Glob made from text t.
Fixtures(t) ==
    StringsUpTo(FixtureAlphabet, MaxFixtureLen) \cup ExampleFixtures
    \cup {t} \cup {Append(t, x) : x \in {"x", "a"}}

\* ------------------------------------------------------------------- state

VARIABLES
    text,           \* the caller's string
    separators,     \* the caller's separators
    pc,             \* where the caller is
    qi, qj, qb,     \* QuoteMeta's i, j and b
    quoted,         \* what QuoteMeta returned
    origin,           \* what Compile was given: the text or QuoteMeta's result
    pattern,        \* Compile's pattern
    tree, compilerToUse, regex,     \* Compile's locals
    stages,         \* the stages Compile has run
    glob, err,      \* what Compile returned
    call,           \* the last Match or Capture: [op, fixture, result]
    frames,         \* concurrent callers: each one's call in progress
    matchers        \* concurrent callers: the PCRE matchers in use

vars == <<text, separators, pc, qi, qj, qb, quoted, origin, pattern, tree,
          compilerToUse, regex, stages, glob, err, call, frames, matchers>>

callerVars == <<frames, matchers>>

quoteVars == <<qi, qj, qb, quoted>>

compileVars == <<origin, pattern, tree, compilerToUse, regex, stages, glob, err>>

NoCall == [op |-> "none"]

Init ==
    /\ text \in Texts
    /\ separators \in SeparatorChoices
    /\ pc = "start"
    /\ qi = 0 /\ qj = 0 /\ qb = <<>> /\ quoted = <<>>
    /\ origin = "none" /\ pattern = <<>>
    /\ tree = Nil /\ compilerToUse = "none" /\ regex = <<>>
    /\ stages = <<>>
    /\ glob = Nil /\ err = NoError
    /\ call = NoCall
    /\ frames = <<>> /\ matchers = <<>>

\* QuoteMeta(text) is entered: b := make([]byte, 2*len(s)); j := 0; i := 0.
QuoteMetaCall ==
    /\ pc = "start"
    /\ qb' = [k \in 1..BufferSize(text) |-> NUL]
    /\ qi' = 0 /\ qj' = 0
    /\ pc' = "quote"
    /\ UNCHANGED <<text, separators, quoted, compileVars, call, callerVars>>

\* The loop of QuoteMeta without the j++ that follows the backslash: the
\* byte overwrites it.
QuoteMetaLoopNoAdvance ==
    /\ pc = "quote"
    /\ qi < Len(text)
    /\ IF qj + 1 > Len(qb)
       THEN /\ pc' = "panic"
            /\ UNCHANGED <<qi, qj, qb>>
       ELSE /\ qb' = [qb EXCEPT ![qj + 1] = text[qi + 1]]
            /\ qj' = qj + 1
            /\ qi' = qi + 1
            /\ pc' = "quote"
    /\ UNCHANGED <<text, separators, quoted, origin, pattern, tree,
                   compilerToUse, regex, stages, glob, err, call, callerVars>>

\* One iteration of QuoteMeta's loop; a write past the buffer panics.
QuoteMetaLoop ==
    /\ pc = "quote"
    /\ qi < Len(text)
    /\ LET c == text[qi + 1]
           need == IF Special(c) THEN 2 ELSE 1
       IN  IF qj + need > Len(qb)
           THEN /\ pc' = "panic"
                /\ UNCHANGED <<qi, qj, qb>>
           ELSE /\ qb' = IF Special(c)
                         THEN [qb EXCEPT ![qj + 1] = "\\", ![qj + 2] = c]
                         ELSE [qb EXCEPT ![qj + 1] = c]
                /\ qj' = qj + need
                /\ qi' = qi + 1
                /\ pc' = "quote"
    /\ UNCHANGED <<text, separators, quoted, compileVars, call, callerVars>>

\* return string(b[0:j]).
QuoteMetaReturn ==
    /\ pc = "quote"
    /\ qi >= Len(text)
    /\ quoted' = SubSeq(qb, 1, qj)
    /\ pc' = "quoted"
    /\ UNCHANGED <<text, separators, qi, qj, qb, compileVars, call, callerVars>>

\* Compile dropping the error of syntax.Parse: it returns an empty Glob.
CompileParseDropsError ==
    /\ pc \in {"start", "quoted"}
    /\ LET pat == IF pc = "start" THEN text ELSE quoted
           res == Parse(pat)
       IN  /\ origin' = IF pc = "start" THEN "text" ELSE "QuoteMeta"
           /\ pattern' = pat
           /\ tree' = res.tree
           /\ compilerToUse' = res.compilerToUse
           /\ stages' = <<"parse">>
           /\ IF res.err # NoError
              THEN /\ glob' = [r |-> Nil, p |-> Nil] /\ err' = NoError
                   /\ pc' = "done"
              ELSE /\ UNCHANGED <<glob, err>> /\ pc' = "codegen"
    /\ UNCHANGED <<text, separators, qi, qj, qb, quoted, regex, call, callerVars>>

\* Compile(pattern, separators...) up to the first return: syntax.Parse.
CompileParse ==
    /\ pc \in {"start", "quoted"}
    /\ LET pat == IF pc = "start" THEN text ELSE quoted
           res == Parse(pat)
       IN  /\ origin' = IF pc = "start" THEN "text" ELSE "QuoteMeta"
           /\ pattern' = pat
           /\ tree' = res.tree
           /\ compilerToUse' = res.compilerToUse
           /\ stages' = <<"parse">>
           /\ IF res.err # NoError
              THEN /\ glob' = Nil /\ err' = res.err /\ pc' = "done"
              ELSE /\ UNCHANGED <<glob, err>> /\ pc' = "codegen"
    /\ UNCHANGED <<text, separators, quoteVars, regex, call, callerVars>>

\* regex, err := compiler.Compile(tree, separators).
CompileCodegen ==
    /\ pc = "codegen"
    /\ LET res == CompilerCompile(tree, separators)
       IN  /\ regex' = res.regex
           /\ stages' = Append(stages, "codegen")
           /\ IF res.err # NoError
              THEN /\ glob' = Nil /\ err' = res.err /\ pc' = "done"
              ELSE /\ UNCHANGED <<glob, err>> /\ pc' = "engine"
    /\ UNCHANGED <<text, separators, quoteVars, origin, pattern, tree,
                   compilerToUse, call, callerVars>>

\* switch compilerToUse: the engine compiles regex and Compile returns.
CompileEngine ==
    /\ pc = "engine"
    /\ LET res == BindEngine(compilerToUse, EngineCompile(regex))
       IN  /\ glob' = res.glob
           /\ err' = res.err
    /\ stages' = Append(stages, "engine")
    /\ pc' = "done"
    /\ UNCHANGED <<text, separators, quoteVars, origin, pattern, tree,
                   compilerToUse, regex, call, callerVars>>

\* g.Match(fixture) on the Glob Compile returned.
Match ==
    /\ pc = "done"
    /\ glob # Nil
    /\ call = NoCall
    /\ \E fixture \in Fixtures(text) :
           call' = [op |-> "Match", fixture |-> fixture,
                    result |-> GlobMatch(glob, fixture)]
    /\ UNCHANGED <<text, separators, pc, quoteVars, compileVars, callerVars>>

\* g.Capture(fixture) on the Glob Compile returned.
Capture ==
    /\ pc = "done"
    /\ glob # Nil
    /\ call = NoCall
    /\ \E fixture \in Fixtures(text) :
           call' = [op |-> "Capture", fixture |-> fixture,
                    result |-> GlobCapture(glob, fixture)]
    /\ UNCHANGED <<text, separators, pc, quoteVars, compileVars, callerVars>>

\* The caller takes the result; the Glob is ready for the next call.
Return ==
    /\ call # NoCall
    /\ call' = NoCall
    /\ UNCHANGED <<text, separators, pc, quoteVars, compileVars, callerVars>>

Next ==
    \/ QuoteMetaCall
    \/ QuoteMetaLoop
    \/ QuoteMetaReturn
    \/ CompileParse
    \/ CompileCodegen
    \/ CompileEngine
    \/ Match
    \/ Capture
    \/ Return

Spec == Init /\ [][Next]_vars

\* ------------------------------------------- one Glob, concurrent callers

Callers == 1..NumCallers

ConcurrentTexts == {Chars("@(foo|bar)baz"), Chars("*(a|?(b,c))x"), Chars("a*")}

ConcurrentFixtures == {Chars("foobaz"), Chars("barbaz"), Chars("abcx"), <<>>}

\* What Compile(pattern, separators...) returns and what it has computed.
Compiled(pat, seps) ==
    LET parsed == Parse(pat)
        gen == CompilerCompile(parsed.tree, seps)
        bound == BindEngine(parsed.compilerToUse, EngineCompile(gen.regex))
    IN  IF parsed.err # NoError
        THEN [tree |-> Nil, compilerToUse |-> parsed.compilerToUse,
              regex |-> <<>>, stages |-> <<"parse">>,
              glob |-> Nil, err |-> parsed.err]
        ELSE IF gen.err # NoError
        THEN [tree |-> parsed.tree, compilerToUse |-> parsed.compilerToUse,
              regex |-> gen.regex, stages |-> <<"parse", "codegen">>,
              glob |-> Nil, err |-> gen.err]
        ELSE [tree |-> parsed.tree, compilerToUse |-> parsed.compilerToUse,
              regex |-> gen.regex, stages |-> <<"parse", "codegen", "engine">>,
              glob |-> bound.glob, err |-> bound.err]

Idle == [pc |-> "idle", op |-> "none", fixture |-> <<>>, num |-> 0,
         groups |-> <<>>, i |-> 0, result |-> Returned(<<>>)]

NoMatcher == [matches |-> FALSE, groups |-> 0, text |-> <<>>]

\* One matcher for all callers, kept with the Glob.
SharedMatcher(c) == 1

\* The matcher a call works on: m, a local variable of Match and of Capture.
MatcherOf(c) == c

\* Compile has returned a Glob; no caller has called yet.
InitCallers ==
    /\ text \in ConcurrentTexts
    /\ separators \in SeparatorChoices
    /\ pc = "done"
    /\ qi = 0 /\ qj = 0 /\ qb = <<>> /\ quoted = <<>>
    /\ origin = "text" /\ pattern = text
    /\ LET c == Compiled(text, separators)
       IN  /\ c.err = NoError
           /\ tree = c.tree /\ compilerToUse = c.compilerToUse
           /\ regex = c.regex /\ stages = c.stages
           /\ glob = c.glob /\ err = c.err
    /\ call = NoCall
    /\ frames = [c \in Callers |-> Idle]
    /\ matchers = [c \in Callers |-> NoMatcher]

sequentialVars == <<text, separators, pc, quoteVars, compileVars, call>>

\* Caller c calls g.Match(fixture).
CallMatch(c) ==
    /\ frames[c].pc = "idle"
    /\ \E fixture \in ConcurrentFixtures :
           frames' = [frames EXCEPT ![c] =
                         [Idle EXCEPT !.pc = "entry", !.op = "Match",
                                      !.fixture = fixture]]
    /\ UNCHANGED <<sequentialVars, matchers>>

\* Caller c calls g.Capture(fixture).
CallCapture(c) ==
    /\ frames[c].pc = "idle"
    /\ \E fixture \in ConcurrentFixtures :
           frames' = [frames EXCEPT ![c] =
                         [Idle EXCEPT !.pc = "entry", !.op = "Capture",
                                      !.fixture = fixture]]
    /\ UNCHANGED <<sequentialVars, matchers>>

\* if g.r != nil: the call ends in one call of the regexp handle.
OnRegexp(c) ==
    /\ frames[c].pc = "entry"
    /\ glob.r # Nil
    /\ LET m == NewMatcher(glob.r, frames[c].fixture)
       IN  frames' = [frames EXCEPT ![c].pc = "ret",
                          ![c].result = IF frames[c].op = "Match"
                                        THEN Returned(m.matches)
                                        ELSE Returned(m.text)]
    /\ UNCHANGED <<sequentialVars, matchers>>

\* m := g.p.MatcherString(fixture, 0).
MakeMatcher(c) ==
    /\ frames[c].pc = "entry"
    /\ glob.r = Nil
    /\ matchers' = [matchers EXCEPT ![MatcherOf(c)] =
                       NewMatcher(glob.p, frames[c].fixture)]
    /\ frames' = [frames EXCEPT ![c].pc = IF frames[c].op = "Match"
                                          THEN "exec" ELSE "groups"]
    /\ UNCHANGED sequentialVars

\* num := m.Groups(); groups := make([]string, 0, num).
ReadGroups(c) ==
    /\ frames[c].pc = "groups"
    /\ frames' = [frames EXCEPT ![c].pc = "exec",
                                ![c].num = matchers[MatcherOf(c)].groups,
                                ![c].groups = <<>>]
    /\ UNCHANGED <<sequentialVars, matchers>>

\* m.MatchString(fixture, 0): the matcher runs again; Match returns its
\* answer, Capture enters its loop or returns the empty groups.
ExecMatcher(c) ==
    /\ frames[c].pc = "exec"
    /\ LET m == NewMatcher(glob.p, frames[c].fixture)
       IN  /\ matchers' = [matchers EXCEPT ![MatcherOf(c)] = m]
           /\ frames' = [frames EXCEPT ![c] =
                 IF frames[c].op = "Match"
                 THEN [@ EXCEPT !.pc = "ret", !.result = Returned(m.matches)]
                 ELSE IF m.matches
                 THEN [@ EXCEPT !.pc = "loop", !.i = 0]
                 ELSE [@ EXCEPT !.pc = "ret",
                                !.result = Returned(frames[c].groups)]]
    /\ UNCHANGED sequentialVars

\* One iteration of the loop of Capture, or its end.
LoopCapture(c) ==
    /\ frames[c].pc = "loop"
    /\ LET f == frames[c]
           g == GroupString(matchers[MatcherOf(c)], f.i)
       IN  frames' = [frames EXCEPT ![c] =
                 IF f.i > LastGroup(f.num)
                 THEN [f EXCEPT !.pc = "ret", !.result = Returned(f.groups)]
                 ELSE IF g.panic
                 THEN [f EXCEPT !.pc = "ret", !.result = Panicked]
                 ELSE [f EXCEPT !.groups = Append(@, g.value), !.i = @ + 1]]
    /\ UNCHANGED <<sequentialVars, matchers>>

\* The call of caller c returns; its matcher is garbage.
ReturnCall(c) ==
    /\ frames[c].pc = "ret"
    /\ frames' = [frames EXCEPT ![c] = Idle]
    /\ matchers' = IF glob.r = Nil
                   THEN [matchers EXCEPT ![MatcherOf(c)] = NoMatcher]
                   ELSE matchers
    /\ UNCHANGED sequentialVars

NextCallers ==
    \E c \in Callers :
        \/ CallMatch(c)
        \/ CallCapture(c)
        \/ OnRegexp(c)
        \/ MakeMatcher(c)
        \/ ReadGroups(c)
        \/ ExecMatcher(c)
        \/ LoopCapture(c)
        \/ ReturnCall(c)

SpecCallers == InitCallers /\ [][NextCallers]_vars

\* ------------------------------------------- what a pattern's tree matches

IsSeparator(c, seps) == \E k \in 1..Len(seps) : seps[k] = c

InClass(c, ranges) ==
    \E k \in 1..Len(ranges) :
        Ord(ranges[k][1]) <= Ord(c) /\ Ord(c) <= Ord(ranges[k][2])

RECURSIVE Ends(_, _, _, _)
RECURSIVE EndsOfChildren(_, _, _, _, _)
RECURSIVE Closure(_, _, _, _)

\* Where one alternative of alts can end when started at a position of starts.
OneOfEnds(alts, seps, s, starts) ==
    UNION {Ends(alts[a], seps, s, j) : a \in 1..Len(alts), j \in starts}

\* starts, and every position repeated alternatives can reach starts it.
Closure(alts, seps, s, starts) ==
    LET more == starts \cup OneOfEnds(alts, seps, s, starts)
    IN  IF more = starts THEN starts ELSE Closure(alts, seps, s, more)

EndsOfChildren(children, k, seps, s, starts) ==
    IF k > Len(children) THEN starts
    ELSE EndsOfChildren(children, k + 1, seps, s,
                        UNION {Ends(children[k], seps, s, j) : j \in starts})

\* The positions of s at which node can end when it starts after the
\* first i characters (section 3 of the specification, node by node).
Ends(node, seps, s, i) ==
    CASE node.kind = "Literal" ->
           IF i < Len(s) /\ s[i + 1] = node.char THEN {i + 1} ELSE {}
      [] node.kind = "AnyOne" ->
           IF i < Len(s) /\ ~IsSeparator(s[i + 1], seps) THEN {i + 1} ELSE {}
      [] node.kind = "AnySequence" ->
           {j \in i..Len(s) :
               node.acrossSeparators
               \/ \A k \in i + 1..j : ~IsSeparator(s[k], seps)}
      [] node.kind = "CharClass" ->
           IF i < Len(s) /\ (InClass(s[i + 1], node.ranges) # node.negated)
           THEN {i + 1} ELSE {}
      [] node.kind = "Sequence" ->
           EndsOfChildren(node.children, 1, seps, s, {i})
      [] node.kind = "Group" ->
           CASE node.gkind = "OneOf" ->
                  OneOfEnds(node.alternatives, seps, s, {i})
             [] node.gkind = "ZeroOrOne" ->
                  {i} \cup OneOfEnds(node.alternatives, seps, s, {i})
             [] node.gkind = "ZeroOrMore" ->
                  Closure(node.alternatives, seps, s, {i})
             [] node.gkind = "OneOrMore" ->
                  Closure(node.alternatives, seps, s,
                          OneOfEnds(node.alternatives, seps, s, {i}))

\* The whole of s matches the pattern of this tree.
WholeMatch(node, seps, s) == Len(s) \in Ends(node, seps, s, 0)

\* A substring of s that is not s matches the pattern of this tree.
ProperPartMatch(node, seps, s) ==
    \E i \in 0..Len(s) : \E j \in Ends(node, seps, s, i) : j - i < Len(s)

\* The Group nodes of a tree, left to right, outermost first.
RECURSIVE GroupsOf(_)
RECURSIVE GroupsOfAll(_, _)
GroupsOfAll(nodes, k) ==
    IF k > Len(nodes) THEN <<>>
    ELSE GroupsOf(nodes[k]) \o GroupsOfAll(nodes, k + 1)

GroupsOf(node) ==
    CASE node.kind = "Group" -> <<node>> \o GroupsOfAll(node.alternatives, 1)
      [] node.kind = "Sequence" -> GroupsOfAll(node.children, 1)
      [] OTHER -> <<>>

\* piece is what one alternative of group matches.
MatchesAlternative(group, seps, piece) ==
    Len(piece) \in OneOfEnds(group.alternatives, seps, piece, {0})

ContainsSeparator(s, seps) == \E k \in 1..Len(s) : IsSeparator(s[k], seps)

ContainsSpecial(s) == \E k \in 1..Len(s) : Special(s[k])

\* s with a backslash before each special byte.
RECURSIVE Quoted(_)
Quoted(s) ==
    IF s = <<>> THEN <<>>
    ELSE (IF Special(Head(s)) THEN <<"\\", Head(s)>> ELSE <<Head(s)>>)
         \o Quoted(Tail(s))

SpecialCount(s) == Cardinality({k \in 1..Len(s) : Special(s[k])})

\* What is wrong with pattern p starts index i on, depth groups being open:
\* a left-to-right scan that skips escapes and classes.
RECURSIVE ClassEnd(_, _)
ClassEnd(p, i) ==
    IF i > Len(p) THEN 0
    ELSE IF p[i] = "]" THEN i
    ELSE IF p[i] = "\\" THEN ClassEnd(p, i + 2)
    ELSE ClassEnd(p, i + 1)

RECURSIVE Flaw(_, _, _)
Flaw(p, i, depth) ==
    IF i > Len(p) THEN (IF depth > 0 THEN "open group" ELSE "none")
    ELSE CASE p[i] = "\\" ->
                IF i = Len(p) THEN "dangling escape" ELSE Flaw(p, i + 2, depth)
           [] p[i] = "[" ->
                LET first == IF i < Len(p) /\ p[i + 1] = "!" THEN i + 2 ELSE i + 1
                    close == ClassEnd(p, first)
                IN  IF close = 0 THEN "open class"
                    ELSE IF close = first THEN "empty class"
                    ELSE Flaw(p, close + 1, depth)
           [] p[i] = "(" -> Flaw(p, i + 1, depth + 1)
           [] p[i] = ")" ->
                IF depth = 0 THEN "unmatched close" ELSE Flaw(p, i + 1, depth - 1)
           [] OTHER -> Flaw(p, i + 1, depth)

Malformed(p) ==
    Flaw(p, 1, 0) \in {"open group", "unmatched close", "dangling escape",
                       "empty class"}

\* ------------------------------------------------------------------ claims

AllStages == <<"parse", "codegen", "engine">>

C3_OneEngineHandle ==
    /\ [](pc = "done" /\ err = NoError =>
            IF HasGroup(tree) THEN glob.p # Nil /\ glob.r = Nil
            ELSE glob.r # Nil /\ glob.p = Nil)
    /\ [][pc = "done" => glob' = glob]_vars

C3_Witness ==
    /\ pc = "done"
    /\ glob # Nil
    /\ HasGroup(tree)
    /\ glob.p # Nil /\ glob.r = Nil
    /\ call.op = "Capture"

\* C4: Match and Capture on a Glob that Compile returned return a value
\* for every fixture, the empty one included; they do not panic.
C4_CallsDoNotPanic ==
    call # NoCall => ~call.result.panic

C4_Witness ==
    /\ call.op = "Capture"
    /\ call.fixture = <<>>
    /\ glob.p # Nil
    /\ ~call.result.panic
    /\ Len(call.result.value) > 1

C7_QuoteMetaRoundTrip ==
    origin = "QuoteMeta" =>
        /\ pc = "done" => err = NoError /\ glob # Nil
        /\ (call.op = "Match" /\ call.fixture = text) =>
               call.result = Returned(TRUE)
        /\ (/\ call.op = "Match"
            /\ ContainsSpecial(text)
            /\ Len(call.fixture) = Len(text) + 1
            /\ SubSeq(call.fixture, 1, Len(text)) = text) =>
               call.result = Returned(FALSE)

C7_Witness ==
    /\ origin = "QuoteMeta"
    /\ ContainsSpecial(text)
    /\ call.op = "Match"
    /\ call.fixture = Append(text, "x")
    /\ call.result = Returned(FALSE)

\* C8: Compile returns an error and no Glob for a pattern with a group
\* left open, a ")" that closes no group, an unescaped backslash at the
\* end, or an empty character class.
C8_MalformedFails ==
    (pc = "done" /\ Malformed(pattern)) => glob = Nil /\ err # NoError

C8_Witness ==
    /\ pc = "done"
    /\ pattern = Chars("@(foo")
    /\ Malformed(pattern)
    /\ glob = Nil
    /\ err = "syntax"

\* C9: with several callers in Match and Capture on one Glob at the same
\* time, in any interleaving of their steps, the Glob stays what Compile
\* returned and every call returns what it returns when run alone.
C9_ConcurrentCalls ==
    /\ glob = Compiled(text, separators).glob
    /\ \A c \in Callers :
           frames[c].pc = "ret" =>
               frames[c].result =
                   IF frames[c].op = "Match"
                   THEN GlobMatch(glob, frames[c].fixture)
                   ELSE GlobCapture(glob, frames[c].fixture)

C9_Witness ==
    /\ glob.p # Nil
    /\ frames[1].pc = "ret"
    /\ frames[1].op = "Capture"
    /\ Len(frames[1].result.value) > 1
    /\ frames[2].pc = "loop"
    /\ frames[2].i > 0
    /\ frames[2].fixture # frames[1].fixture

\* C10: QuoteMeta(text) is text with a backslash before each special byte
\* and nothing else changed; it is longer than text by the number of
\* special bytes, and no write goes past the buffer of 2*len(text) bytes.
C10_QuoteMeta ==
    /\ pc # "panic"
    /\ pc = "quote" => qj <= 2 * qi /\ qi <= Len(text) /\ Len(qb) = 2 * Len(text)
    /\ (pc = "quoted" \/ origin = "QuoteMeta") =>
        /\ quoted = Quoted(text)
        /\ Len(quoted) = Len(text) + SpecialCount(text)
        /\ text = Chars("*(foo*)") => quoted = Chars("\\*\\(foo\\*\\)")
        /\ text = <<>> => quoted = <<>>

C10_Witness ==
    /\ pc = "quoted"
    /\ text = Chars("*(foo*)")
    /\ quoted = Chars("\\*\\(foo\\*\\)")

====
